---- MODULE Spec2Model ----
(***************************************************************************)
(* PDV SaaS backend (src/unnamed/part_000): the JSON collections, the      *)
(* session tokens, and the request handlers, each handler cut at its       *)
(* await points (file reads and writes), so that requests interleave       *)
(* exactly where the event loop lets them.                                 *)
(*                                                                         *)
(* Time is counted in hours: a day is Day hours and the trial lasts        *)
(* TrialPeriod hours.  A JS index of -1 (not found) is 0 here, since       *)
(* sequences start at 1.                                                   *)
(***************************************************************************)
EXTENDS Integers, Sequences, FiniteSets, TLC

VARIABLES users, tenants, products, sales, tokens, now, ticks, nreq, req

vars == <<users, tenants, products, sales, tokens, now, ticks, nreq, req>>

files == <<users, tenants, products, sales>>

----------------------------------------------------------------------------
(* Bounds *)

\* Requests started in one run of the sales and catalogue routes.
MaxRequests == 3

\* Requests started in one run of the account routes.
MaxAuthRequests == 3

\* Requests started in one run of the listing and report routes.
MaxListRequests == 4

\* Clock advances in one run.
MaxTicks == 1

\* Two requests are in flight at a time: every race below is between two.
Slots == {1, 2}

----------------------------------------------------------------------------
(* Program constants *)

Day == 24

TrialPeriod == 30 * Day

TokenLife == Day

MinPasswordLen == 6

SeedStock1 == 50

SeedStock2 == 30

\* new Date(x) of something that is no date: every comparison with it is false.
InvalidDate == -1

----------------------------------------------------------------------------
(* JavaScript helpers *)

Has(o, f) == f \in DOMAIN o

\* { ...a, ...b }
Spread(a, b) ==
    [f \in DOMAIN a \cup DOMAIN b |-> IF f \in DOMAIN b THEN b[f] ELSE a[f]]

Range(s) == {s[i] : i \in DOMAIN s}

MaxOf(S) == CHOOSE m \in S : \A x \in S : x <= m

\* xs.length > 0 ? Math.max(...xs.map(x => x.id)) + 1 : 1
NextId(xs) ==
    IF Len(xs) > 0 THEN MaxOf({xs[i].id : i \in DOMAIN xs}) + 1 ELSE 1

\* the first index of a set of indices, 0 when there is none (findIndex, find)
First(hits) ==
    IF hits = {} THEN 0 ELSE CHOOSE i \in hits : \A j \in hits : i <= j

\* xs.findIndex(p => p.id === id && p.tenantId === tenantId)
FindOwned(xs, id, tenantId) ==
    First({i \in DOMAIN xs : xs[i].id = id /\ xs[i].tenantId = tenantId})

\* xs.findIndex(t => t.id === id)
FindById(xs, id) == First({i \in DOMAIN xs : xs[i].id = id})

\* xs.filter(x => x.tenantId === tenantId), in storage order
OfTenant(xs, tenantId) == SelectSeq(xs, LAMBDA x : x.tenantId = tenantId)

\* A JSON array value and a JSON value that is no array (Array.isArray)
Arr(s) == [array |-> s]

NotArr == [object |-> TRUE]

IsArray(v) == Has(v, "array")

\* new Date(a) < new Date(b); false when either is no date
DateBefore(a, b) == a # InvalidDate /\ b # InvalidDate /\ a < b

----------------------------------------------------------------------------
(* Credentials *)

\* bcrypt.hash(password, 10): one-way, so the stored value is not the password
Hash(pw) == <<"bcrypt", pw>>

\* bcrypt.compare(password, hash)
Compare(pw, h) == h = Hash(pw)

\* jwt.sign({ id, email, role, tenantId }, JWT_SECRET, { expiresIn: '24h' })
Sign(u, t) ==
    [id |-> u.id, email |-> u.email, role |-> u.role, tenantId |-> u.tenantId,
     exp |-> t + TokenLife]

\* jwt.verify(token, JWT_SECRET): a token that was signed and has not expired
Verify(tok, t) == tok \in tokens /\ t < tok.exp

----------------------------------------------------------------------------
(* Seed data written by initializeDataFiles when no file exists.  Money is  *)
(* counted in cents.                                                        *)

SeedUsers ==
    << [id |-> 1, email |-> "admin@pdv.com", password |-> Hash("admin123"),
        name |-> "Administrador", role |-> "admin", tenantId |-> 1,
        isActive |-> TRUE, createdAt |-> 0] >>

SeedProducts ==
    << [id |-> 1, tenantId |-> 1, name |-> "Coca-Cola 2L", price |-> 999,
        barcode |-> "7891000142007", stock |-> SeedStock1,
        lowStockAlert |-> 5, createdAt |-> 0, origin |-> 0],
       [id |-> 2, tenantId |-> 1, name |-> "Arroz 5kg", price |-> 2490,
        barcode |-> "7891910000197", stock |-> SeedStock2,
        lowStockAlert |-> 10, createdAt |-> 0, origin |-> 0] >>

SeedTenants ==
    << [id |-> 1, name |-> "Loja Demo PDV SaaS", email |-> "contato@loja.com",
        plan |-> "basic", subscriptionStatus |-> "active",
        trialEnds |-> 0 + TrialPeriod, createdAt |-> 0, isActive |-> TRUE] >>

----------------------------------------------------------------------------
(* Requests.  A slot holds one request from its arrival to its response:    *)
(* pc is the await the handler is suspended at, status the HTTP status once *)
(* answered (0 before).                                                     *)

Idle == [kind |-> "idle", pc |-> "idle", status |-> 0]

Null == [null |-> TRUE]

Init ==
    /\ users = SeedUsers
    /\ tenants = SeedTenants
    /\ products = SeedProducts
    /\ sales = << >>
    /\ tokens = {}
    /\ now = 0
    /\ ticks = 0
    /\ nreq = 0
    /\ req = [r \in Slots |-> Idle]

\* res.status(code).json(...) ends the request
Respond(r, code, more) ==
    req' = [req EXCEPT ![r] = Spread(Spread(@, more), [pc |-> "done", status |-> code])]

\* the handler suspends at its next await
Suspend(r, at, more) ==
    req' = [req EXCEPT ![r] = Spread(Spread(@, more), [pc |-> at])]

\* a slot whose request has been answered (or that never held one) is free;
\* slots are interchangeable, so an arriving request takes the first free one
Free(r) == req[r].pc \in {"idle", "done"}

FirstFree(r) == Free(r) /\ \A s \in Slots : Free(s) => r <= s

\* a request arrives with a bearer token and authenticateToken accepts it
Arrive(r, kind, tok, more) ==
    /\ FirstFree(r)
    /\ Verify(tok, now)
    /\ nreq' = nreq + 1
    /\ req' = [req EXCEPT ![r] =
                  Spread([kind |-> kind, pc |-> "gate", status |-> 0,
                          user |-> tok, tenant |-> Null], more)]

----------------------------------------------------------------------------
(* POST /api/auth/login.  The users file is read once; what follows the     *)
(* read (bcrypt.compare, jwt.sign) touches no collection, so the request is *)
(* one step taken at the read.  A rejected login (400, 401) changes         *)
(* nothing.                                                                 *)

Login(email, password) ==
    /\ LET i == First({k \in DOMAIN users :
                          users[k].email = email /\ users[k].isActive})
       IN  /\ i # 0
           /\ Compare(password, users[i].password)
           /\ tokens' = tokens \cup {Sign(users[i], now)}
    /\ nreq' = nreq + 1
    /\ UNCHANGED <<files, now, ticks, req>>

----------------------------------------------------------------------------
(* POST /api/sales *)

\* (mutant) the total taken from the first line item alone
SaleTotal_FirstItem(items) ==
    IF items = << >> THEN 0 ELSE items[1].price * items[1].quantity

\* saleData.items.reduce((sum, item) => sum + (item.price * item.quantity), 0)
RECURSIVE SaleTotal(_)
SaleTotal(items) ==
    IF items = << >> THEN 0
    ELSE LET n == Len(items)
         IN  SaleTotal(SubSeq(items, 1, n - 1)) + items[n].price * items[n].quantity

\* (mutant) the decrement without the clamp
ClampedStock_NoClamp(stock, quantity) == stock - quantity

\* stock -= quantity; if (stock < 0) stock = 0
ClampedStock(stock, quantity) ==
    IF stock - quantity < 0 THEN 0 ELSE stock - quantity

\* (mutant) the product looked up by id alone, whatever its tenant
AdjustStock_AnyTenant(ps, item, tenantId, t) ==
    LET i == FindById(ps, item.productId)
    IN  IF i # 0
        THEN [ps EXCEPT ![i] =
                 Spread(@, [stock |-> ClampedStock(@.stock, item.quantity),
                            updatedAt |-> t])]
        ELSE ps

\* the body of the loop over saleData.items
AdjustStock(ps, item, tenantId, t) ==
    LET i == FindOwned(ps, item.productId, tenantId)
    IN  IF i # 0
        THEN [ps EXCEPT ![i] =
                 Spread(@, [stock |-> ClampedStock(@.stock, item.quantity),
                            updatedAt |-> t])]
        ELSE ps

\* for (const item of saleData.items) { ... }
RECURSIVE AdjustStocks(_, _, _, _)
AdjustStocks(ps, items, tenantId, t) ==
    IF items = << >> THEN ps
    ELSE AdjustStocks(AdjustStock(ps, Head(items), tenantId, t), Tail(items),
                      tenantId, t)

\* the sale object built from the request
NewSale(id, user, body, t) ==
    [id |-> id, tenantId |-> user.tenantId, userId |-> user.id,
     items |-> body.items.array, total |-> SaleTotal(body.items.array),
     paymentMethod |-> body.paymentMethod, status |-> "completed",
     createdAt |-> t, origin |-> user.tenantId]

\* (mutant) the payment method not required
SaleBodyValid_NoPayment(body) ==
    Has(body, "items") /\ IsArray(body.items) /\ Len(body.items.array) # 0

\* the two validations that answer 400
SaleBodyValid(body) ==
    /\ Has(body, "items") /\ IsArray(body.items) /\ Len(body.items.array) # 0
    /\ Has(body, "paymentMethod")

StartSale(r, tok, body) ==
    /\ Arrive(r, "sale", tok, [body |-> body])
    /\ UNCHANGED <<files, tokens, now, ticks>>

SaleReadSales(r) ==
    /\ req[r].kind = "sale" /\ req[r].pc = "readSales"
    /\ Suspend(r, "readProducts", [sales |-> sales])
    /\ UNCHANGED <<files, tokens, now, ticks, nreq>>

\* the products read resolves; everything up to the first write is computed
SaleReadProducts(r) ==
    /\ req[r].kind = "sale" /\ req[r].pc = "readProducts"
    /\ LET q == req[r]
           newSale == NewSale(NextId(q.sales), q.user, q.body, now)
       IN  Suspend(r, "writeSales",
                   [snapshot |-> products,
                    products |-> AdjustStocks(products, q.body.items.array,
                                              q.user.tenantId, now),
                    newSale |-> newSale,
                    sales |-> Append(q.sales, newSale)])
    /\ UNCHANGED <<files, tokens, now, ticks, nreq>>

\* (mutant) both collections written in one step
SaleWriteSales_Both(r) ==
    /\ req[r].kind = "sale" /\ req[r].pc = "writeSales"
    /\ sales' = req[r].sales
    /\ products' = req[r].products
    /\ Suspend(r, "writeProducts", << >>)
    /\ UNCHANGED <<users, tenants, tokens, now, ticks, nreq>>

SaleWriteSales(r) ==
    /\ req[r].kind = "sale" /\ req[r].pc = "writeSales"
    /\ sales' = req[r].sales
    /\ Suspend(r, "writeProducts", << >>)
    /\ UNCHANGED <<users, tenants, products, tokens, now, ticks, nreq>>

\* (mutant) the decrements applied to the stored collection at write time
SaleWriteProducts_Merge(r) ==
    /\ req[r].kind = "sale" /\ req[r].pc = "writeProducts"
    /\ products' = AdjustStocks(products, req[r].body.items.array,
                                req[r].user.tenantId, now)
    /\ Respond(r, 201, [sale |-> req[r].newSale])
    /\ UNCHANGED <<users, tenants, sales, tokens, now, ticks, nreq>>

SaleWriteProducts(r) ==
    /\ req[r].kind = "sale" /\ req[r].pc = "writeProducts"
    /\ products' = req[r].products
    /\ Respond(r, 201, [sale |-> req[r].newSale])
    /\ UNCHANGED <<users, tenants, sales, tokens, now, ticks, nreq>>

----------------------------------------------------------------------------
(* POST /api/products *)

\* !product.name || !product.price || product.stock === undefined
ProductBodyValid(body) ==
    /\ Has(body, "name")
    /\ Has(body, "price") /\ body.price # 0
    /\ Has(body, "stock")

\* { id: newId, tenantId: req.user.tenantId, ...product, createdAt, updatedAt }
\* (origin records the tenant of the creating request; no body carries it)
NewProduct(id, user, body, t) ==
    Spread(Spread([id |-> id, tenantId |-> user.tenantId, origin |-> user.tenantId],
                  body),
           [createdAt |-> t, updatedAt |-> t])

StartCreateProduct(r, tok, body) ==
    /\ Arrive(r, "createProduct", tok, [body |-> body])
    /\ UNCHANGED <<files, tokens, now, ticks>>

CreateProductRead(r) ==
    /\ req[r].kind = "createProduct" /\ req[r].pc = "readProducts"
    /\ LET q == req[r]
           newProduct == NewProduct(NextId(products), q.user, q.body, now)
       IN  Suspend(r, "writeProducts",
                   [products |-> Append(products, newProduct),
                    newProduct |-> newProduct])
    /\ UNCHANGED <<files, tokens, now, ticks, nreq>>

CreateProductWrite(r) ==
    /\ req[r].kind = "createProduct" /\ req[r].pc = "writeProducts"
    /\ products' = req[r].products
    /\ Respond(r, 201, [product |-> req[r].newProduct])
    /\ UNCHANGED <<users, tenants, sales, tokens, now, ticks, nreq>>

----------------------------------------------------------------------------
(* PUT /api/products/:id *)

\* { ...products[index], ...updates, updatedAt }
UpdatedProduct(old, updates, t) ==
    Spread(Spread(old, updates), [updatedAt |-> t])

StartUpdateProduct(r, tok, id, body) ==
    /\ Arrive(r, "updateProduct", tok, [productId |-> id, body |-> body])
    /\ UNCHANGED <<files, tokens, now, ticks>>

UpdateProductRead(r) ==
    /\ req[r].kind = "updateProduct" /\ req[r].pc = "readProducts"
    /\ LET q == req[r]
           index == FindOwned(products, q.productId, q.user.tenantId)
       IN  IF index = 0
           THEN Respond(r, 404, << >>)
           ELSE Suspend(r, "writeProducts",
                        [index |-> index,
                         products |-> [products EXCEPT ![index] =
                                          UpdatedProduct(@, q.body, now)]])
    /\ UNCHANGED <<files, tokens, now, ticks, nreq>>

UpdateProductWrite(r) ==
    /\ req[r].kind = "updateProduct" /\ req[r].pc = "writeProducts"
    /\ products' = req[r].products
    /\ Respond(r, 200, [product |-> req[r].products[req[r].index]])
    /\ UNCHANGED <<users, tenants, sales, tokens, now, ticks, nreq>>

----------------------------------------------------------------------------
(* POST /api/auth/register (no token, no tenant gate) *)

\* the two validations that answer 400 before any file is read
RegisterBodyValid(body) ==
    /\ Has(body, "email") /\ Has(body, "password")
    /\ Has(body, "name") /\ Has(body, "storeName")
    /\ ~ (Len(body.password) < MinPasswordLen)

\* (mutant) a trial of one week
NewTenant_Week(id, body, t) ==
    [id |-> id, name |-> body.storeName, email |-> body.email, plan |-> "trial",
     subscriptionStatus |-> "trial", trialEnds |-> t + 7 * Day,
     createdAt |-> t, isActive |-> TRUE]

\* the tenant object built from the request; both dates are read from the
\* clock in the same synchronous block
NewTenant(id, body, t) ==
    [id |-> id, name |-> body.storeName, email |-> body.email, plan |-> "trial",
     subscriptionStatus |-> "trial", trialEnds |-> t + TrialPeriod,
     createdAt |-> t, isActive |-> TRUE]

\* the user object built from the request
NewUser(id, body, tenantId, t) ==
    [id |-> id, email |-> body.email, password |-> Hash(body.password),
     name |-> body.name, role |-> "admin", tenantId |-> tenantId,
     isActive |-> TRUE, createdAt |-> t]

StartRegister(r, body) ==
    /\ FirstFree(r)
    /\ nreq' = nreq + 1
    /\ req' = [req EXCEPT ![r] =
                  [kind |-> "register", body |-> body,
                   pc |-> IF RegisterBodyValid(body) THEN "readUsers" ELSE "done",
                   status |-> IF RegisterBodyValid(body) THEN 0 ELSE 400]]
    /\ UNCHANGED <<files, tokens, now, ticks>>

RegisterReadUsers(r) ==
    /\ req[r].kind = "register" /\ req[r].pc = "readUsers"
    /\ Suspend(r, "readTenants", [users |-> users])
    /\ UNCHANGED <<files, tokens, now, ticks, nreq>>

\* the tenants read resolves: the e-mail check, then the new tenant
RegisterReadTenants(r) ==
    /\ req[r].kind = "register" /\ req[r].pc = "readTenants"
    /\ LET q == req[r]
           newTenant == NewTenant(NextId(tenants), q.body, now)
       IN  IF \E i \in DOMAIN q.users : q.users[i].email = q.body.email
           THEN Respond(r, 400, << >>)
           ELSE Suspend(r, "writeTenants",
                        [tenants |-> Append(tenants, newTenant),
                         newTenant |-> newTenant])
    /\ UNCHANGED <<files, tokens, now, ticks, nreq>>

RegisterWriteTenants(r) ==
    /\ req[r].kind = "register" /\ req[r].pc = "writeTenants"
    /\ tenants' = req[r].tenants
    /\ Suspend(r, "hash", [newUserId |-> NextId(req[r].users)])
    /\ UNCHANGED <<users, products, sales, tokens, now, ticks, nreq>>

\* bcrypt.hash resolves: the new user is built and pushed
RegisterHash(r) ==
    /\ req[r].kind = "register" /\ req[r].pc = "hash"
    /\ LET q == req[r]
           newUser == NewUser(q.newUserId, q.body, q.newTenant.id, now)
       IN  Suspend(r, "writeUsers",
                   [newUser |-> newUser, users |-> Append(q.users, newUser)])
    /\ UNCHANGED <<files, tokens, now, ticks, nreq>>

RegisterWriteUsers(r) ==
    /\ req[r].kind = "register" /\ req[r].pc = "writeUsers"
    /\ users' = req[r].users
    /\ LET token == Sign(req[r].newUser, now)
       IN  /\ tokens' = tokens \cup {token}
           /\ Respond(r, 201, [user |-> req[r].newUser,
                               tenant |-> req[r].newTenant, token |-> token])
    /\ UNCHANGED <<tenants, products, sales, now, ticks, nreq>>

----------------------------------------------------------------------------
(* PUT /api/settings/tenant *)

StartUpdateTenant(r, tok, body) ==
    /\ Arrive(r, "updateTenant", tok, [body |-> body])
    /\ UNCHANGED <<files, tokens, now, ticks>>

UpdateTenantRead(r) ==
    /\ req[r].kind = "updateTenant" /\ req[r].pc = "readTenants"
    /\ LET q == req[r]
           index == FindById(tenants, q.user.tenantId)
       IN  IF index = 0
           THEN Respond(r, 404, << >>)
           ELSE Suspend(r, "writeTenants",
                        [index |-> index,
                         tenants |-> [tenants EXCEPT ![index] =
                                         Spread(Spread(@, q.body),
                                                [updatedAt |-> now])]])
    /\ UNCHANGED <<files, tokens, now, ticks, nreq>>

UpdateTenantWrite(r) ==
    /\ req[r].kind = "updateTenant" /\ req[r].pc = "writeTenants"
    /\ tenants' = req[r].tenants
    /\ Respond(r, 200, [tenant |-> req[r].tenants[req[r].index]])
    /\ UNCHANGED <<users, products, sales, tokens, now, ticks, nreq>>

----------------------------------------------------------------------------
(* The listing and report routes *)

\* new Date().toISOString().split('T')[0]
DateOf(t) == t \div Day

\* (mutant) the sales of the day before
OnDay_Yesterday(s, today) == DateOf(s.createdAt) = today - 1

\* s.createdAt.startsWith(today)
OnDay(s, today) == DateOf(s.createdAt) = today

\* s.tenantId === req.user.tenantId && s.status === 'completed'
CompletedOf(xs, tenantId) ==
    SelectSeq(xs, LAMBDA x : x.tenantId = tenantId /\ x.status = "completed")

\* xs.reduce((sum, sale) => sum + sale.total, 0)
RECURSIVE Revenue(_)
Revenue(xs) ==
    IF xs = << >> THEN 0 ELSE Revenue(SubSeq(xs, 1, Len(xs) - 1)) + xs[Len(xs)].total

\* p.lowStockAlert || 5
LowStockThreshold(p) ==
    IF Has(p, "lowStockAlert") /\ p.lowStockAlert # 0 THEN p.lowStockAlert ELSE 5

\* tenantProducts.filter(p => p.stock < (p.lowStockAlert || 5)).length
LowStockCount(ps) ==
    Cardinality({i \in DOMAIN ps : ps[i].stock < LowStockThreshold(ps[i])})

StartGetProducts(r, tok) ==
    /\ Arrive(r, "getProducts", tok, << >>)
    /\ UNCHANGED <<files, tokens, now, ticks>>

GetProductsRead(r) ==
    /\ req[r].kind = "getProducts" /\ req[r].pc = "readProducts"
    /\ Respond(r, 200, [products |-> OfTenant(products, req[r].user.tenantId)])
    /\ UNCHANGED <<files, tokens, now, ticks, nreq>>

StartSalesToday(r, tok) ==
    /\ Arrive(r, "salesToday", tok, << >>)
    /\ UNCHANGED <<files, tokens, now, ticks>>

SalesTodayRead(r) ==
    /\ req[r].kind = "salesToday" /\ req[r].pc = "readSales"
    /\ Respond(r, 200,
               [sales |-> SelectSeq(CompletedOf(sales, req[r].user.tenantId),
                                    LAMBDA x : OnDay(x, req[r].today))])
    /\ UNCHANGED <<files, tokens, now, ticks, nreq>>

\* the query holds startDate and endDate (days) or neither
StartSalesStats(r, tok, query) ==
    /\ Arrive(r, "salesStats", tok, [query |-> query])
    /\ UNCHANGED <<files, tokens, now, ticks>>

SalesStatsRead(r) ==
    /\ req[r].kind = "salesStats" /\ req[r].pc = "readSales"
    /\ LET q == req[r]
           mine == CompletedOf(sales, q.user.tenantId)
           from == IF Has(q.query, "startDate")
                   THEN SelectSeq(mine, LAMBDA x : DateOf(x.createdAt) >= q.query.startDate)
                   ELSE mine
           filteredSales ==
                   IF Has(q.query, "endDate")
                   THEN SelectSeq(from, LAMBDA x : DateOf(x.createdAt) <= q.query.endDate)
                   ELSE from
       IN  Respond(r, 200, [sales |-> filteredSales,
                            totalSales |-> Len(filteredSales),
                            totalRevenue |-> Revenue(filteredSales)])
    /\ UNCHANGED <<files, tokens, now, ticks, nreq>>

StartDashboard(r, tok) ==
    /\ Arrive(r, "dashboard", tok, << >>)
    /\ UNCHANGED <<files, tokens, now, ticks>>

DashboardReadSales(r) ==
    /\ req[r].kind = "dashboard" /\ req[r].pc = "readSales"
    /\ Suspend(r, "readProducts", [sales |-> sales])
    /\ UNCHANGED <<files, tokens, now, ticks, nreq>>

DashboardReadProducts(r) ==
    /\ req[r].kind = "dashboard" /\ req[r].pc = "readProducts"
    /\ LET q == req[r]
           tenantSales == CompletedOf(q.sales, q.user.tenantId)
           tenantProducts == OfTenant(products, q.user.tenantId)
           todaySales == SelectSeq(tenantSales, LAMBDA x : OnDay(x, DateOf(now)))
       IN  Respond(r, 200, [sales |-> tenantSales,
                            products |-> tenantProducts,
                            totalSales |-> Len(todaySales),
                            totalRevenue |-> Revenue(todaySales),
                            lowStockCount |-> LowStockCount(tenantProducts)])
    /\ UNCHANGED <<files, tokens, now, ticks, nreq>>

----------------------------------------------------------------------------
(* GET /api/products/search.  A string is compared through its characters. *)

\* the characters of the strings that names, barcodes and queries are made of
Chars(str) ==
    CASE str = "Coca-Cola 2L" -> <<"C","o","c","a","-","C","o","l","a"," ","2","L">>
      [] str = "Arroz 5kg" -> <<"A","r","r","o","z"," ","5","k","g">>
      [] str = "7891000142007" -> <<"7","8","9","1","0","0","0","1","4","2","0","0","7">>
      [] str = "7891910000197" -> <<"7","8","9","1","9","1","0","0","0","0","1","9","7">>
      [] str = "Agua" -> <<"A","g","u","a">>
      [] str = "Suco" -> <<"S","u","c","o">>
      [] str = "AB1" -> <<"A","B","1">>
      [] str = "AGU" -> <<"A","G","U">>
      [] str = "ab" -> <<"a","b">>
      [] str = "789" -> <<"7","8","9">>
      [] str = "" -> << >>

\* String.prototype.toLowerCase, character by character
LowerChar(c) ==
    CASE c = "A" -> "a" [] c = "B" -> "b" [] c = "C" -> "c" [] c = "G" -> "g"
      [] c = "L" -> "l" [] c = "S" -> "s" [] c = "U" -> "u" [] OTHER -> c

ToLowerCase(cs) == [i \in DOMAIN cs |-> LowerChar(cs[i])]

\* String.prototype.includes
Includes(cs, sub) ==
    \E i \in 0..(Len(cs) - Len(sub)) : SubSeq(cs, i + 1, i + Len(sub)) = sub

\* a query parameter that is present and not the empty string
Given(query, f) == Has(query, f) /\ query[f] # ""

\* result.slice(0, 50)
SearchLimit == 50

Slice(xs, n) == SubSeq(xs, 1, IF Len(xs) < n THEN Len(xs) ELSE n)

\* the test of the q filter on one product; reading .includes of a barcode
\* that the product does not have throws
NameHit(p, term) == Includes(ToLowerCase(Chars(p.name)), term)

BarcodeThrows(p, term) == ~ NameHit(p, term) /\ ~ Has(p, "barcode")

QueryHit(p, term) ==
    \/ NameHit(p, term)
    \/ Has(p, "barcode") /\ Includes(Chars(p.barcode), term)

StartSearch(r, tok, query) ==
    /\ Arrive(r, "search", tok, [query |-> query])
    /\ UNCHANGED <<files, tokens, now, ticks>>

SearchRead(r) ==
    /\ req[r].kind = "search" /\ req[r].pc = "readProducts"
    /\ LET q == req[r]
           tenantProducts == OfTenant(products, q.user.tenantId)
           term == ToLowerCase(Chars(q.query.q))
       IN  IF Given(q.query, "barcode")
           THEN Respond(r, 200,
                    [products |-> Slice(SelectSeq(tenantProducts,
                         LAMBDA x : Has(x, "barcode") /\ x.barcode = q.query.barcode),
                         SearchLimit)])
           ELSE IF Given(q.query, "q")
           THEN IF \E i \in DOMAIN tenantProducts :
                       BarcodeThrows(tenantProducts[i], term)
                THEN Respond(r, 500, [failedAt |-> "filter"])
                ELSE Respond(r, 200,
                         [products |-> Slice(SelectSeq(tenantProducts,
                              LAMBDA x : QueryHit(x, term)), SearchLimit)])
           ELSE Respond(r, 200, [products |-> Slice(tenantProducts, SearchLimit)])
    /\ UNCHANGED <<files, tokens, now, ticks, nreq>>

----------------------------------------------------------------------------
(* The clock *)

\* time passes between requests (a request is served within the hour): the
\* length of a trial, or an hour more; expired tokens, which authenticateToken
\* refuses from then on, are forgotten
Tick(d) ==
    /\ ticks < MaxTicks
    /\ \A r \in Slots : Free(r)
    /\ ticks' = ticks + 1
    /\ now' = now + d
    /\ tokens' = {tok \in tokens : now + d < tok.exp}
    /\ UNCHANGED <<files, nreq, req>>

----------------------------------------------------------------------------
(* validateTenant, and the part of each handler that runs before its first  *)
(* await.                                                                    *)

\* the synchronous head of the route's handler, entered from next()
Enter(r, tenant) ==
    LET q == req[r]
        got == [tenant |-> tenant]
    IN  CASE q.kind = "sale" ->
                 IF SaleBodyValid(q.body) THEN Suspend(r, "readSales", got)
                 ELSE Respond(r, 400, got)
          [] q.kind = "createProduct" ->
                 IF ProductBodyValid(q.body) THEN Suspend(r, "readProducts", got)
                 ELSE Respond(r, 400, got)
          [] q.kind = "updateProduct" -> Suspend(r, "readProducts", got)
          [] q.kind = "updateTenant" -> Suspend(r, "readTenants", got)
          [] q.kind = "getProducts" -> Suspend(r, "readProducts", got)
          [] q.kind = "search" -> Suspend(r, "readProducts", got)
          [] q.kind = "salesToday" ->
                 Suspend(r, "readSales", Spread(got, [today |-> DateOf(now)]))
          [] q.kind = "salesStats" -> Suspend(r, "readSales", got)
          [] q.kind = "dashboard" -> Suspend(r, "readSales", got)

\* (mutant) the isActive flag ignored
TenantRefused_IgnoreActive(ts, tenantId, t) ==
    LET i == FindById(ts, tenantId)
    IN  \/ i = 0
        \/ ts[i].subscriptionStatus # "active" /\ DateBefore(ts[i].trialEnds, t)

\* the tenant is absent or inactive, or its subscription is not active and
\* its trial is over
TenantRefused(ts, tenantId, t) ==
    LET i == FindById(ts, tenantId)
    IN  \/ i = 0
        \/ ~ ts[i].isActive
        \/ ts[i].subscriptionStatus # "active" /\ DateBefore(ts[i].trialEnds, t)

ValidateTenant(r) ==
    /\ req[r].pc = "gate"
    /\ IF TenantRefused(tenants, req[r].user.tenantId, now)
       THEN Respond(r, 403, << >>)
       ELSE Enter(r, tenants[FindById(tenants, req[r].user.tenantId)])
    /\ UNCHANGED <<files, tokens, now, ticks, nreq>>

\* the read of the tenants file rejects: the catch of validateTenant
GateFail(r) ==
    /\ req[r].pc = "gate"
    /\ Respond(r, 500, [failedAt |-> "gate"])
    /\ UNCHANGED <<files, tokens, now, ticks, nreq>>

\* a file read or write of a handler rejects: its catch answers 500 and the
\* file stays as it was
AwaitPcs ==
    {"readSales", "readProducts", "writeSales", "writeProducts",
     "readUsers", "readTenants", "writeTenants", "writeUsers"}

IoFail(r) ==
    /\ req[r].pc \in AwaitPcs
    /\ Respond(r, 500, [failedAt |-> req[r].pc])
    /\ UNCHANGED <<files, tokens, now, ticks, nreq>>

----------------------------------------------------------------------------
(* Request inputs *)

Emails == {"admin@pdv.com", "ana@loja.com", "bia@loja.com"}

Passwords == {"admin123", "segredo1"}

Item(productId, price, quantity) ==
    [productId |-> productId, price |-> price, quantity |-> quantity]

\* line items: two of product 1, one that empties product 2, one that gives
\* stock back, one of a product that the seed does not hold
ItemLists ==
    { <<Item(1, 1000, 2), Item(1, 500, 1)>>,
      <<Item(1, 1000, 2)>>,
      <<Item(1, 500, 1)>>,
      <<Item(2, 250, 5)>>,
      <<Item(2, 250, 5), Item(2, 250, -1)>>,
      <<Item(3, 250, 4)>> }

SaleBodies ==
    {[items |-> Arr(is), paymentMethod |-> "cash"] : is \in ItemLists}
    \cup { [paymentMethod |-> "cash"],
           [items |-> NotArr, paymentMethod |-> "cash"],
           [items |-> Arr(<< >>), paymentMethod |-> "cash"],
           [items |-> Arr(<<Item(2, 250, 5)>>)] }

ProductBodies ==
    { [name |-> "Agua", price |-> 250, stock |-> 10],
      [name |-> "Agua", price |-> 250, stock |-> -1],
      [name |-> "Agua", price |-> 250, stock |-> 3, tenantId |-> 2],
      [price |-> 250, stock |-> 3] }

UpdateBodies == { [stock |-> 3], [stock |-> -1], [tenantId |-> 2] }

ProductIds == {2, 3}

RegisterBody(email, password) ==
    [email |-> email, password |-> password, name |-> "Ana", storeName |-> "Loja X"]

RegisterBodies ==
    { RegisterBody("ana@loja.com", "segredo1"),
      RegisterBody("bia@loja.com", "segredo1"),
      RegisterBody("admin@pdv.com", "segredo1"),
      RegisterBody("ana@loja.com", "123"),
      [email |-> "ana@loja.com", password |-> "segredo1", name |-> "Ana"] }

TenantBodies ==
    { [isActive |-> FALSE], [subscriptionStatus |-> "active"],
      [trialEnds |-> InvalidDate], [id |-> 9] }

\* the second shop, and a product sent with a tenantId of its own
ListRegisterBodies == { RegisterBody("ana@loja.com", "segredo1") }

ListProductBodies ==
    { [name |-> "Agua", price |-> 250, stock |-> 10],
      [name |-> "Agua", price |-> 250, stock |-> 3, tenantId |-> 2] }

StatsQueries == { << >>, [startDate |-> 0, endDate |-> 0] }

Advances == {TrialPeriod, TrialPeriod + 1}

----------------------------------------------------------------------------
(* The sales and catalogue routes of one shop *)

\* the requests a run may still start
Budget(max) == nreq < max

NextStore ==
    \/ Budget(MaxRequests) /\ \E e \in Emails, p \in Passwords : Login(e, p)
    \/ Budget(MaxRequests) /\ \E r \in Slots, tok \in tokens, b \in SaleBodies :
           StartSale(r, tok, b)
    \/ Budget(MaxRequests) /\ \E r \in Slots, tok \in tokens, b \in ProductBodies :
           StartCreateProduct(r, tok, b)
    \/ Budget(MaxRequests) /\ \E r \in Slots, tok \in tokens, id \in ProductIds,
                                 b \in UpdateBodies :
           StartUpdateProduct(r, tok, id, b)
    \/ \E r \in Slots : ValidateTenant(r)
    \/ \E r \in Slots : SaleReadSales(r)
    \/ \E r \in Slots : SaleReadProducts(r)
    \/ \E r \in Slots : SaleWriteSales(r)
    \/ \E r \in Slots : SaleWriteProducts(r)
    \/ \E r \in Slots : CreateProductRead(r)
    \/ \E r \in Slots : CreateProductWrite(r)
    \/ \E r \in Slots : UpdateProductRead(r)
    \/ \E r \in Slots : UpdateProductWrite(r)
    \/ \E r \in Slots : GateFail(r)
    \/ \E r \in Slots : IoFail(r)

SpecStore == Init /\ [][NextStore]_vars

----------------------------------------------------------------------------
(* Properties of the sales and catalogue routes (checked under SpecStore)   *)

IsSale(r) == req[r].kind = "sale"

Answered(r, code) == req[r].pc = "done" /\ req[r].status = code

\* the step hands the request its tenant: next() of validateTenant
PassedGate(r) == req'[r].tenant # Null

Max0(x) == IF x > 0 THEN x ELSE 0

\* max(0, stock - quantity) item by item, in request order, over the items
\* that name the product
RECURSIVE ExpectedStock(_, _, _)
ExpectedStock(stock, items, productId) ==
    IF items = << >> THEN stock
    ELSE ExpectedStock(IF Head(items).productId = productId
                       THEN Max0(stock - Head(items).quantity)
                       ELSE stock,
                       Tail(items), productId)

\* the product at index i of ps is the one a line item of tenant t finds
FoundFor(ps, i, t) ==
    /\ ps[i].tenantId = t
    /\ \A j \in 1..(i - 1) : ~ (ps[j].id = ps[i].id /\ ps[j].tenantId = t)

\* C1: when a sale request writes the products collection, every product of
\* the caller's tenant in the snapshot it read is written with stock
\* max(0, stock - quantity) applied item by item in request order.
C1_SaleWritesClampedStock ==
    [][\A r \in Slots :
         (IsSale(r) /\ req[r].pc = "writeProducts" /\ req'[r].pc = "done"
                    /\ req'[r].status = 201)
         => /\ Len(products') = Len(req[r].snapshot)
            /\ \A i \in DOMAIN req[r].snapshot :
                 FoundFor(req[r].snapshot, i, req[r].user.tenantId)
                 => products'[i].stock =
                        ExpectedStock(req[r].snapshot[i].stock,
                                      req[r].body.items.array,
                                      req[r].snapshot[i].id)]_vars

\* a product read with stock 3 and sold with quantity 5 is stored with stock 0
C1_Witness ==
    \E r \in Slots :
        /\ IsSale(r) /\ Answered(r, 201)
        /\ \E i \in DOMAIN req[r].snapshot :
             /\ req[r].snapshot[i].stock = 3
             /\ req[r].snapshot[i].tenantId = req[r].user.tenantId
             /\ \E k \in DOMAIN req[r].body.items.array :
                  /\ req[r].body.items.array[k].productId = req[r].snapshot[i].id
                  /\ req[r].body.items.array[k].quantity = 5
             /\ Len(req[r].body.items.array) = 1
             /\ products[i].stock = 0

\* C2 (as claimed): every stored product has stock >= 0.
C2_StockNeverNegative ==
    \A i \in DOMAIN products : products[i].stock >= 0

\* C5: two sale requests of one tenant that read the same products snapshot
\* and are both answered 201 (theirs being the two latest answers) leave every
\* product they sold with the stock one of them alone computes, so the
\* decrement of the other is lost.
C5_LostUpdate ==
    \A r1, r2 \in Slots :
        ( /\ r1 # r2 /\ IsSale(r1) /\ IsSale(r2)
          /\ Answered(r1, 201) /\ Answered(r2, 201)
          /\ req[r1].user.tenantId = req[r2].user.tenantId
          /\ req[r1].snapshot = req[r2].snapshot )
        => \A i \in DOMAIN req[r1].snapshot :
             FoundFor(req[r1].snapshot, i, req[r1].user.tenantId)
             => products[i].stock \in
                  { ExpectedStock(req[r1].snapshot[i].stock,
                                  req[r1].body.items.array, req[r1].snapshot[i].id),
                    ExpectedStock(req[r2].snapshot[i].stock,
                                  req[r2].body.items.array, req[r1].snapshot[i].id) }

\* both answered 201 on the same snapshot, quantities 2 and 1 of a product of
\* stock s >= 3: the stored stock is s - 2 or s - 1, not s - 3
C5_Witness ==
    \E r1, r2 \in Slots :
        /\ r1 # r2 /\ IsSale(r1) /\ IsSale(r2)
        /\ Answered(r1, 201) /\ Answered(r2, 201)
        /\ req[r1].snapshot = req[r2].snapshot
        /\ req[r1].body.items.array = <<Item(1, 1000, 2)>>
        /\ req[r2].body.items.array = <<Item(1, 500, 1)>>
        /\ \E i \in DOMAIN req[r1].snapshot :
             LET s == req[r1].snapshot[i].stock
             IN  /\ req[r1].snapshot[i].id = 1
                 /\ s >= 3
                 /\ products[i].stock \in {s - 2, s - 1}
                 /\ products[i].stock # s - 3

\* C6 (as claimed): a sale record, once in the sales collection, is there
\* unchanged in every later state.
C6_SaleImmutable ==
    [][\A i \in DOMAIN sales : \E j \in DOMAIN sales' : sales'[j] = sales[i]]_vars

\* C7: the sales write comes first and leaves the products collection as it
\* was; a products write that then fails undoes nothing: the sales collection
\* stays as written, the stored products are not changed, the answer is 500.
C7_NoRollback ==
    [][\A r \in Slots :
         /\ (IsSale(r) /\ req[r].pc = "writeSales" /\ req'[r].pc = "writeProducts")
            => /\ \E j \in DOMAIN sales' : sales'[j] = req[r].newSale
               /\ products' = products
         /\ (IsSale(r) /\ req[r].pc = "writeProducts" /\ req'[r].pc = "done"
                       /\ req'[r].status # 201)
            => /\ req'[r].status = 500
               /\ sales' = sales
               /\ products' = products]_vars

\* the products write of a sale failed: the sale is stored, the stocks it
\* would have decremented are as they were read
C7_Witness ==
    \E r \in Slots :
        /\ IsSale(r) /\ Answered(r, 500) /\ req[r].failedAt = "writeProducts"
        /\ \E j \in DOMAIN sales : sales[j] = req[r].newSale
        /\ products = req[r].snapshot
        /\ \E i \in DOMAIN products : req[r].products[i].stock < products[i].stock

\* the sum of price * quantity over a list of line items
RECURSIVE SumOfLines(_)
SumOfLines(items) ==
    IF items = << >> THEN 0
    ELSE Head(items).price * Head(items).quantity + SumOfLines(Tail(items))

\* C10: the total of every sale built from an accepted request, as returned
\* and as stored, is the sum of price * quantity over the request's items.
C10_TotalFromRequestPrices ==
    /\ \A r \in Slots :
         (IsSale(r) /\ Has(req[r], "newSale"))
         => /\ req[r].newSale.total = SumOfLines(req[r].body.items.array)
            /\ req[r].newSale.items = req[r].body.items.array
    /\ \A j \in DOMAIN sales : sales[j].total = SumOfLines(sales[j].items)

\* items of price 10.00 x 2 and 5.00 x 1 give 25.00 stored and returned,
\* while the catalogue holds the product at 9.99
C10_Witness ==
    \E r \in Slots :
        /\ IsSale(r) /\ Answered(r, 201)
        /\ req[r].body.items.array = <<Item(1, 1000, 2), Item(1, 500, 1)>>
        /\ req[r].sale.total = 2500
        /\ \E j \in DOMAIN sales : sales[j] = req[r].sale
        /\ \E i \in DOMAIN products : products[i].id = 1 /\ products[i].price = 999

\* a sale body with items missing, not a list or empty, or with no payment
\* method
InvalidSaleBody(body) ==
    \/ ~ Has(body, "items")
    \/ ~ Has(body.items, "array")
    \/ body.items.array = << >>
    \/ ~ Has(body, "paymentMethod")

\* C11: a sale request with items missing, not a list or empty, or with no
\* payment method, is answered 400 by its handler (403 or 500 when the tenant
\* gate stops it first) in the step that follows the gate, and that step
\* changes neither the sales nor the products collection.
C11_InvalidSaleRejected ==
    [][\A r \in Slots :
         ( /\ IsSale(r) /\ req[r].pc = "gate" /\ req'[r] # req[r]
           /\ InvalidSaleBody(req[r].body) )
         => /\ req'[r].pc = "done"
            /\ req'[r].status \in {400, 403, 500}
            /\ PassedGate(r) => req'[r].status = 400
            /\ sales' = sales /\ products' = products]_vars

\* one request with items that is not a list and one with no payment method
\* were both let through the gate and answered 400
C11_Witness ==
    \E r1, r2 \in Slots :
        /\ IsSale(r1) /\ Answered(r1, 400) /\ req[r1].tenant # Null
        /\ Has(req[r1].body, "items") /\ ~ IsArray(req[r1].body.items)
        /\ IsSale(r2) /\ Answered(r2, 400) /\ req[r2].tenant # Null
        /\ ~ Has(req[r2].body, "paymentMethod")
        /\ sales = << >> /\ products = SeedProducts

\* the line item names a product that tenant t owns in ps
Matches(ps, item, t) ==
    \E i \in DOMAIN ps : ps[i].id = item.productId /\ ps[i].tenantId = t

\* some line item of request r names no product its tenant owns in ps
HasUnmatchedItem(r, ps) ==
    \E k \in DOMAIN req[r].body.items.array :
        ~ Matches(ps, req[r].body.items.array[k], req[r].user.tenantId)

\* C12: a sale with a line item that names no product of the caller's tenant
\* (an unknown id, or an id held by another tenant only) is not refused for
\* it; it is stored and returned with all its items and with the sum of
\* price * quantity over all of them; and its products write leaves every
\* record that no item of the caller's tenant names exactly as it was read.
C12_UnmatchedItemSkipped ==
    [][\A r \in Slots :
         LET items == req[r].body.items.array
             t == req[r].user.tenantId
         IN  /\ ( /\ IsSale(r) /\ req[r].pc = "readProducts"
                  /\ req'[r] # req[r] /\ HasUnmatchedItem(r, products) )
                => \/ /\ req'[r].pc = "writeSales"
                      /\ req'[r].newSale.items = items
                      /\ req'[r].newSale.total = SumOfLines(items)
                   \/ /\ req'[r].pc = "done" /\ req'[r].status = 500
                      /\ req'[r].failedAt = "readProducts"
             /\ ( /\ IsSale(r) /\ req[r].pc = "writeSales"
                  /\ req'[r].pc = "writeProducts" )
                => /\ sales'[Len(sales')].items = items
                   /\ sales'[Len(sales')].total = SumOfLines(items)
             /\ ( /\ IsSale(r) /\ req[r].pc = "writeProducts"
                  /\ req'[r].pc = "done" /\ req'[r].status = 201 )
                => /\ req'[r].sale.items = items
                   /\ Len(products') = Len(req[r].snapshot)
                   /\ \A i \in DOMAIN req[r].snapshot :
                        ( \A k \in DOMAIN items :
                              ~ ( /\ items[k].productId = req[r].snapshot[i].id
                                  /\ req[r].snapshot[i].tenantId = t ) )
                        => products'[i] = req[r].snapshot[i]]_vars

\* a sale of 5 units of product 2, which only another tenant holds, was
\* answered 201 and stored with total 12.50, and product 2 still has its stock
C12_Witness ==
    \E r \in Slots :
        /\ IsSale(r) /\ Answered(r, 201)
        /\ req[r].body.items.array = <<Item(2, 250, 5)>>
        /\ HasUnmatchedItem(r, req[r].snapshot)
        /\ \E i \in DOMAIN products :
             /\ products[i].id = 2 /\ products[i].tenantId # req[r].user.tenantId
             /\ products[i].stock = SeedStock2
        /\ \E j \in DOMAIN sales :
             /\ sales[j] = req[r].sale
             /\ sales[j].total = 1250

----------------------------------------------------------------------------
(* The account routes, the tenant gate and the clock *)

NextAuth ==
    \/ Budget(MaxAuthRequests) /\ \E e \in Emails, p \in Passwords : Login(e, p)
    \/ Budget(MaxAuthRequests) /\ \E r \in Slots, b \in RegisterBodies :
           StartRegister(r, b)
    \/ Budget(MaxAuthRequests) /\ \E r \in Slots, tok \in tokens, b \in TenantBodies :
           StartUpdateTenant(r, tok, b)
    \/ Budget(MaxAuthRequests) /\ \E r \in Slots, tok \in tokens :
           StartGetProducts(r, tok)
    \/ \E r \in Slots : ValidateTenant(r)
    \/ \E r \in Slots : RegisterReadUsers(r)
    \/ \E r \in Slots : RegisterReadTenants(r)
    \/ \E r \in Slots : RegisterWriteTenants(r)
    \/ \E r \in Slots : RegisterHash(r)
    \/ \E r \in Slots : RegisterWriteUsers(r)
    \/ \E r \in Slots : UpdateTenantRead(r)
    \/ \E r \in Slots : UpdateTenantWrite(r)
    \/ \E r \in Slots : GetProductsRead(r)
    \/ \E r \in Slots : GateFail(r)
    \/ \E d \in Advances : Tick(d)

SpecAuth == Init /\ [][NextAuth]_vars

----------------------------------------------------------------------------
(* Two shops: registration, product creation, and the listing and report    *)
(* routes                                                                    *)

NextList ==
    \/ Budget(MaxListRequests) /\ \E e \in Emails, p \in Passwords : Login(e, p)
    \/ Budget(MaxListRequests) /\ \E r \in Slots, b \in ListRegisterBodies :
           StartRegister(r, b)
    \/ Budget(MaxListRequests) /\ \E r \in Slots, tok \in tokens, b \in ListProductBodies :
           StartCreateProduct(r, tok, b)
    \/ Budget(MaxListRequests) /\ \E r \in Slots, tok \in tokens :
           StartGetProducts(r, tok)
    \/ Budget(MaxListRequests) /\ \E r \in Slots, tok \in tokens :
           StartSalesToday(r, tok)
    \/ Budget(MaxListRequests) /\ \E r \in Slots, tok \in tokens, q \in StatsQueries :
           StartSalesStats(r, tok, q)
    \/ Budget(MaxListRequests) /\ \E r \in Slots, tok \in tokens :
           StartDashboard(r, tok)
    \/ \E r \in Slots : ValidateTenant(r)
    \/ \E r \in Slots : RegisterReadUsers(r)
    \/ \E r \in Slots : RegisterReadTenants(r)
    \/ \E r \in Slots : RegisterWriteTenants(r)
    \/ \E r \in Slots : RegisterHash(r)
    \/ \E r \in Slots : RegisterWriteUsers(r)
    \/ \E r \in Slots : CreateProductRead(r)
    \/ \E r \in Slots : CreateProductWrite(r)
    \/ \E r \in Slots : GetProductsRead(r)
    \/ \E r \in Slots : SalesTodayRead(r)
    \/ \E r \in Slots : SalesStatsRead(r)
    \/ \E r \in Slots : DashboardReadSales(r)
    \/ \E r \in Slots : DashboardReadProducts(r)

SpecList == Init /\ [][NextList]_vars

----------------------------------------------------------------------------
(* Properties of the listing routes (checked under SpecList)                *)

IsListing(r) ==
    req[r].kind \in {"getProducts", "salesToday", "salesStats", "dashboard"}

\* C3 (as claimed): no listing or report answered to a tenant holds a product
\* or a sale created by a request of another tenant.  (GET
\* /api/products/search returns a part of what GET /api/products returns.)
C3_TenantIsolation ==
    \A r \in Slots :
        (IsListing(r) /\ Answered(r, 200))
        => /\ Has(req[r], "products")
              => \A i \in DOMAIN req[r].products :
                   req[r].products[i].origin \in {0, req[r].user.tenantId}
           /\ Has(req[r], "sales")
              => \A i \in DOMAIN req[r].sales :
                   req[r].sales[i].origin = req[r].user.tenantId

----------------------------------------------------------------------------
(* Properties of the account routes and the tenant gate (checked under      *)
(* SpecAuth)                                                                *)

\* the first record of the tenants file with the token's tenant id
NamedTenant(r, i) ==
    /\ i \in DOMAIN tenants
    /\ tenants[i].id = req[r].user.tenantId
    /\ \A j \in 1..(i - 1) : tenants[j].id # req[r].user.tenantId

\* the gate step of request r, the tenants file having been read
GateChecked(r) ==
    /\ req[r].pc = "gate" /\ req'[r].pc # "gate"
    /\ ~ (req'[r].status = 500 /\ req'[r].tenant = Null)

\* C4 (as claimed): the handler is reached only if the tenant exists, is
\* active, and is subscribed or the current time is before trialEnds;
\* otherwise the answer is 403 and no collection changes.
C4_GateStrict ==
    [][\A r \in Slots :
         GateChecked(r)
         => LET usable ==
                  \E i \in DOMAIN tenants :
                     /\ NamedTenant(r, i)
                     /\ tenants[i].isActive
                     /\ \/ tenants[i].subscriptionStatus = "active"
                        \/ now < tenants[i].trialEnds
            IN  /\ PassedGate(r) => usable
                /\ ~ usable => /\ req'[r].pc = "done" /\ req'[r].status = 403
                               /\ files' = files]_vars

\* C4 (amended): the handler is reached only if the tenant exists, is active,
\* and is subscribed or trialEnds is not a date before the current time (so
\* also at the instant trialEnds itself, and when trialEnds is no date);
\* otherwise the answer is 403, or 500 when the tenants file cannot be read,
\* and no collection changes.
C4_Gate ==
    [][\A r \in Slots :
         (req[r].pc = "gate" /\ req'[r].pc # "gate")
         => LET usable ==
                  \E i \in DOMAIN tenants :
                     /\ NamedTenant(r, i)
                     /\ tenants[i].isActive
                     /\ \/ tenants[i].subscriptionStatus = "active"
                        \/ tenants[i].trialEnds = InvalidDate
                        \/ now <= tenants[i].trialEnds
            IN  /\ PassedGate(r) => usable
                /\ ~ PassedGate(r)
                   => /\ req'[r].pc = "done" /\ req'[r].status \in {403, 500}
                      /\ files' = files
                /\ ~ usable => ~ PassedGate(r)
                /\ (~ usable /\ GateChecked(r)) => req'[r].status = 403]_vars

\* a request of a tenant on trial passed the gate at the very hour its trial
\* ends
C4_Witness ==
    \E r \in Slots :
        /\ req[r].kind = "getProducts" /\ req[r].pc # "gate"
        /\ req[r].tenant # Null
        /\ req[r].tenant.subscriptionStatus = "trial"
        /\ req[r].tenant.trialEnds = now

EmailIn(us, email) == \E i \in DOMAIN us : us[i].email = email

\* C8: no two stored users ever have the same e-mail, whatever the
\* interleaving of registrations; and a registration whose e-mail is among
\* the stored users is not answered 201 and changes neither the users nor
\* the tenants collection.
C8_UniqueEmails ==
    /\ [](\A i, j \in DOMAIN users : users[i].email = users[j].email => i = j)
    /\ [][\A r \in Slots :
            ( /\ req[r].kind = "register"
              /\ req[r].pc # "done" /\ req'[r] # req[r]
              /\ EmailIn(users, req[r].body.email) )
            => /\ users' = users /\ tenants' = tenants
               /\ req'[r].pc = "done" => req'[r].status # 201]_vars

\* the tenant of a registration: on trial, for 30 days from its creation
TrialOf30Days(t) ==
    /\ t.subscriptionStatus = "trial"
    /\ t.plan = "trial"
    /\ t.trialEnds = t.createdAt + 30 * 24

----------------------------------------------------------------------------
(* One client that sends its requests one after the other: a new shop, its  *)
(* first product and its first sale                                         *)

MaxJourneyRequests == 5

\* no request is in flight
Quiet == \A r \in Slots : Free(r)

JourneyRegisterBodies ==
    { RegisterBody("ana@loja.com", "segredo1"),
      RegisterBody("ana@loja.com", "123") }

\* every product of a journey is created with stock 10
JourneyProductBodies == { [name |-> "Agua", price |-> 250, stock |-> 10] }

\* 4 units at 2.50 of the product a new shop creates first; the same of a
\* seeded product; more units than the new product has
JourneySaleBodies ==
    { [items |-> Arr(<<Item(3, 250, 4)>>), paymentMethod |-> "cash"],
      [items |-> Arr(<<Item(1, 250, 4)>>), paymentMethod |-> "cash"],
      [items |-> Arr(<<Item(3, 250, 11)>>), paymentMethod |-> "card"] }

NextJourney ==
    \/ Budget(MaxJourneyRequests) /\ Quiet
         /\ \E e \in Emails, p \in Passwords : Login(e, p)
    \/ Budget(MaxJourneyRequests) /\ Quiet
         /\ \E r \in Slots, b \in JourneyRegisterBodies : StartRegister(r, b)
    \/ Budget(MaxJourneyRequests) /\ Quiet
         /\ \E r \in Slots, tok \in tokens, b \in JourneyProductBodies :
                StartCreateProduct(r, tok, b)
    \/ Budget(MaxJourneyRequests) /\ Quiet
         /\ \E r \in Slots, tok \in tokens, b \in JourneySaleBodies :
                StartSale(r, tok, b)
    \/ Budget(MaxJourneyRequests) /\ Quiet
         /\ \E r \in Slots, tok \in tokens : StartDashboard(r, tok)
    \/ \E r \in Slots : ValidateTenant(r)
    \/ \E r \in Slots : RegisterReadUsers(r)
    \/ \E r \in Slots : RegisterReadTenants(r)
    \/ \E r \in Slots : RegisterWriteTenants(r)
    \/ \E r \in Slots : RegisterHash(r)
    \/ \E r \in Slots : RegisterWriteUsers(r)
    \/ \E r \in Slots : CreateProductRead(r)
    \/ \E r \in Slots : CreateProductWrite(r)
    \/ \E r \in Slots : SaleReadSales(r)
    \/ \E r \in Slots : SaleReadProducts(r)
    \/ \E r \in Slots : SaleWriteSales(r)
    \/ \E r \in Slots : SaleWriteProducts(r)
    \/ \E r \in Slots : DashboardReadSales(r)
    \/ \E r \in Slots : DashboardReadProducts(r)

SpecJourney == Init /\ [][NextJourney]_vars

\* the user is the administrator of a shop that was registered, not seeded
NewShop(user) ==
    /\ \A i \in DOMAIN SeedTenants : SeedTenants[i].id # user.tenantId
    /\ \E i \in DOMAIN tenants : tenants[i].id = user.tenantId
    /\ \E i \in DOMAIN users : users[i].id = user.id /\ users[i].tenantId = user.tenantId

\* the catalogue once the new shop t has created its product with stock 10
\* and nothing else has changed
CatalogueWithFirstProduct(ps, t) ==
    /\ Len(ps) = Len(SeedProducts) + 1
    /\ SubSeq(ps, 1, Len(SeedProducts)) = SeedProducts
    /\ ps[Len(ps)].tenantId = t
    /\ ps[Len(ps)].stock = 10

\* C13: for a shop that registered, with requests served one at a time on
\* one day: its first product, created with stock 10, joins the seeded
\* catalogue with that stock; one sale of 4 units of it at 2.50 paid in cash,
\* the first sale stored, has total 10.00 and leaves the product with stock 6;
\* and the dashboard overview then reports totalSales 1 for the shop.
C13_Journey ==
    [][\A r \in Slots :
         LET q == req[r]
         IN  /\ ( /\ q.kind = "createProduct" /\ q.pc = "writeProducts"
                  /\ req'[r].pc = "done" /\ req'[r].status = 201
                  /\ NewShop(q.user) /\ products = SeedProducts
                  /\ q.body.stock = 10 /\ ~ Has(q.body, "tenantId") )
                => CatalogueWithFirstProduct(products', q.user.tenantId)
             /\ ( /\ IsSale(r) /\ q.pc = "writeProducts"
                  /\ req'[r].pc = "done" /\ req'[r].status = 201
                  /\ NewShop(q.user)
                  /\ CatalogueWithFirstProduct(q.snapshot, q.user.tenantId)
                  /\ q.body.items.array =
                        <<Item(q.snapshot[Len(q.snapshot)].id, 250, 4)>>
                  /\ q.body.paymentMethod = "cash"
                  /\ Len(q.sales) = 1 )
                => /\ req'[r].sale.total = 1000
                   /\ sales' = <<req'[r].sale>>
                   /\ products'[Len(products')].stock = 6
                   /\ products'[Len(products')].id = q.snapshot[Len(q.snapshot)].id
             /\ ( /\ q.kind = "dashboard" /\ q.pc = "readProducts"
                  /\ req'[r].pc = "done" /\ req'[r].status = 200
                  /\ NewShop(q.user)
                  /\ Len(sales) = 1 /\ sales[1].tenantId = q.user.tenantId
                  /\ sales[1].status = "completed"
                  /\ DateOf(sales[1].createdAt) = DateOf(now) )
                => req'[r].totalSales = 1]_vars

\* after five requests (registration, login, product, sale, overview) the
\* overview answered to the new shop reports one sale; the sale stored has
\* total 10.00 and the shop's product, created with stock 10, has stock 6
C13_Witness ==
    \E r \in Slots :
        /\ req[r].kind = "dashboard" /\ Answered(r, 200)
        /\ NewShop(req[r].user)
        /\ nreq = 5
        /\ req[r].totalSales = 1
        /\ Len(sales) = 1 /\ sales[1].total = 1000
        /\ sales[1].tenantId = req[r].user.tenantId
        /\ sales[1].items = <<Item(3, 250, 4)>>
        /\ Len(products) = 3 /\ products[3].id = 3
        /\ products[3].tenantId = req[r].user.tenantId
        /\ products[3].stock = 6

----------------------------------------------------------------------------
(* The catalogue of one shop: products created, searched and counted *)

MaxCatalogueRequests == 4

\* a product with an alert level of 0, one that brings an id of its own, one
\* with letters in its barcode, one without barcode or alert level
CatalogueProductBodies ==
    { [name |-> "Agua", price |-> 250, stock |-> 3, lowStockAlert |-> 0],
      [name |-> "Agua", price |-> 250, stock |-> 3, id |-> 1],
      [name |-> "Agua", price |-> 250, stock |-> 10, barcode |-> "AB1"],
      [name |-> "Suco", price |-> 400, stock |-> 3] }

SearchQueries ==
    { << >>,
      [barcode |-> "AB1", q |-> "789"],
      [barcode |-> "", q |-> "AGU"],
      [q |-> "ab"],
      [q |-> "789"] }

NextCatalogue ==
    \/ Budget(MaxCatalogueRequests) /\ \E e \in Emails, p \in Passwords : Login(e, p)
    \/ Budget(MaxCatalogueRequests)
         /\ \E r \in Slots, tok \in tokens, b \in CatalogueProductBodies :
                StartCreateProduct(r, tok, b)
    \/ Budget(MaxCatalogueRequests)
         /\ \E r \in Slots, tok \in tokens, q \in SearchQueries :
                StartSearch(r, tok, q)
    \/ Budget(MaxCatalogueRequests)
         /\ \E r \in Slots, tok \in tokens : StartDashboard(r, tok)
    \/ \E r \in Slots : ValidateTenant(r)
    \/ \E r \in Slots : CreateProductRead(r)
    \/ \E r \in Slots : CreateProductWrite(r)
    \/ \E r \in Slots : SearchRead(r)
    \/ \E r \in Slots : DashboardReadSales(r)
    \/ \E r \in Slots : DashboardReadProducts(r)

SpecCatalogue == Init /\ [][NextCatalogue]_vars

\* the ids of a collection
IdsOf(xs) == {xs[i].id : i \in DOMAIN xs}

\* C14 (as claimed): the product a create request stores and returns has the
\* id max(ids of the products the request read) + 1, or 1 when it read none,
\* whatever the accepted body.
C14_NextProductId ==
    [][\A r \in Slots :
         ( /\ req[r].kind = "createProduct" /\ req[r].pc = "writeProducts"
           /\ req'[r].pc = "done" /\ req'[r].status = 201 )
         => LET read == SubSeq(req[r].products, 1, Len(req[r].products) - 1)
                expected == IF read = << >> THEN 1
                            ELSE (CHOOSE m \in IdsOf(read) :
                                     \A n \in IdsOf(read) : n <= m) + 1
            IN  /\ req'[r].product.id = expected
                /\ products'[Len(products')] = req'[r].product]_vars

\* the alert level as claimed: lowStockAlert when the product has one, 0
\* included, and 5 otherwise
ClaimedThreshold(p) == IF Has(p, "lowStockAlert") THEN p.lowStockAlert ELSE 5

\* C15 (as claimed): the lowStockCount of an overview is the number of the
\* tenant's products with stock < lowStockAlert when the product has a
\* lowStockAlert (0 included), and with stock < 5 when it has none.
C15_LowStockCount ==
    [][\A r \in Slots :
         ( /\ req[r].kind = "dashboard" /\ req[r].pc = "readProducts"
           /\ req'[r].pc = "done" /\ req'[r].status = 200 )
         => req'[r].lowStockCount =
                Cardinality({i \in DOMAIN products :
                                /\ products[i].tenantId = req[r].user.tenantId
                                /\ products[i].stock < ClaimedThreshold(products[i])})]_vars

\* the string contains the query, letter case set aside
ContainsNoCase(str, query) ==
    Includes(ToLowerCase(Chars(str)), ToLowerCase(Chars(query)))

\* the products a search returns as claimed
ClaimedSearch(ps, query) ==
    Slice(IF Given(query, "barcode")
          THEN SelectSeq(ps, LAMBDA x : Has(x, "barcode") /\ x.barcode = query.barcode)
          ELSE IF Given(query, "q")
          THEN SelectSeq(ps, LAMBDA x :
                   \/ ContainsNoCase(x.name, query.q)
                   \/ Has(x, "barcode") /\ ContainsNoCase(x.barcode, query.q))
          ELSE ps,
          50)

\* C16 (as claimed): a search answers with at most 50 of the tenant's
\* products: those whose barcode equals the barcode parameter when it is
\* given; otherwise those whose name or barcode contains q, letter case set
\* aside, when q is given; otherwise all of them.
C16_Search ==
    [][\A r \in Slots :
         ( /\ req[r].kind = "search" /\ req[r].pc = "readProducts"
           /\ req'[r].pc = "done" )
         => /\ req'[r].status = 200
            /\ req'[r].products =
                   ClaimedSearch(OfTenant(products, req[r].user.tenantId),
                                 req[r].query)]_vars

\* C17 (as claimed): no two registrations answered 201 return the same
\* tenant id, in the tenant record or in the token; and when a registration
\* is answered 201, the tenant with the id it returns is, in the tenants
\* collection, the tenant this registration created.
C17_DistinctTenantIds ==
    /\ [](\A r1, r2 \in Slots :
            ( /\ r1 # r2
              /\ req[r1].kind = "register" /\ Answered(r1, 201)
              /\ req[r2].kind = "register" /\ Answered(r2, 201) )
            => /\ req[r1].tenant.id # req[r2].tenant.id
               /\ req[r1].token.tenantId # req[r2].token.tenantId)
    /\ [][\A r \in Slots :
            ( /\ req[r].kind = "register" /\ req[r].pc = "writeUsers"
              /\ req'[r].pc = "done" /\ req'[r].status = 201 )
            => /\ req'[r].token.tenantId = req'[r].tenant.id
               /\ \A j \in DOMAIN tenants' :
                    tenants'[j].id = req'[r].tenant.id
                    => tenants'[j] = req'[r].tenant
               /\ \E j \in DOMAIN tenants' :
                    tenants'[j].id = req'[r].tenant.id]_vars

----------------------------------------------------------------------------
(* Two shops on one products file: the seeded shop and a registered one *)

MaxSharedRequests == 4

\* a sale of a seeded product and one of the product a new shop creates
SharedSaleBodies ==
    { [items |-> Arr(<<Item(1, 1000, 2)>>), paymentMethod |-> "cash"],
      [items |-> Arr(<<Item(3, 250, 4)>>), paymentMethod |-> "cash"] }

SharedUpdateBodies == { [price |-> 300] }

NextShared ==
    \/ Budget(MaxSharedRequests)
         /\ \E p \in Passwords : Login("admin@pdv.com", p)
    \/ Budget(MaxSharedRequests)
         /\ \E r \in Slots, b \in ListRegisterBodies : StartRegister(r, b)
    \/ Budget(MaxSharedRequests)
         /\ \E r \in Slots, tok \in tokens, b \in SharedSaleBodies :
                StartSale(r, tok, b)
    \/ Budget(MaxSharedRequests)
         /\ \E r \in Slots, tok \in tokens, b \in JourneyProductBodies :
                StartCreateProduct(r, tok, b)
    \/ Budget(MaxSharedRequests)
         /\ \E r \in Slots, tok \in tokens, id \in ProductIds,
               b \in SharedUpdateBodies :
                StartUpdateProduct(r, tok, id, b)
    \/ \E r \in Slots : ValidateTenant(r)
    \/ \E r \in Slots : RegisterReadUsers(r)
    \/ \E r \in Slots : RegisterReadTenants(r)
    \/ \E r \in Slots : RegisterWriteTenants(r)
    \/ \E r \in Slots : RegisterHash(r)
    \/ \E r \in Slots : RegisterWriteUsers(r)
    \/ \E r \in Slots : SaleReadSales(r)
    \/ \E r \in Slots : SaleReadProducts(r)
    \/ \E r \in Slots : SaleWriteSales(r)
    \/ \E r \in Slots : SaleWriteProducts(r)
    \/ \E r \in Slots : CreateProductRead(r)
    \/ \E r \in Slots : CreateProductWrite(r)
    \/ \E r \in Slots : UpdateProductRead(r)
    \/ \E r \in Slots : UpdateProductWrite(r)

SpecShared == Init /\ [][NextShared]_vars

\* a product record with its stock and updatedAt blanked
ButStock(p) == Spread(p, [stock |-> 0, updatedAt |-> 0])

\* C18 (as claimed): the products write of a sale leaves every stored product
\* of another tenant as it is, and changes nothing but stock and updatedAt in
\* the stored products of the caller's tenant, whatever other requests it is
\* interleaved with.
C18_SaleFrame ==
    [][\A r \in Slots :
         ( /\ IsSale(r) /\ req[r].pc = "writeProducts"
           /\ req'[r].pc = "done" /\ req'[r].status = 201 )
         => \A i \in DOMAIN products :
              /\ i \in DOMAIN products'
              /\ products[i].tenantId # req[r].user.tenantId
                 => products'[i] = products[i]
              /\ products[i].tenantId = req[r].user.tenantId
                 => ButStock(products'[i]) = ButStock(products[i])]_vars

====
